---- MODULE Spec2Model ----
(***************************************************************************)
(* Addressable binary min-heap of src/minheap.c: a dense array of          *)
(* (id, priority) nodes in heap order plus an id -> position index map.    *)
(***************************************************************************)
EXTENDS Integers, Sequences, FiniteSets, TLC

\* ---------------------------------------------------------------- bounds
MaxCapacity == 4
MaxPriority == 3
MaxNodes == 5
MaxSift == 7

\* ------------------------------------------------------------- constants
ROOT_INDEX == 1
NOTHING == -1

Priorities == 1..MaxPriority
Ids(capacity) == 0..(capacity - 1)

\* Storage that malloc returned and nothing has written since, and storage
\* that was freed, is indeterminate: it holds whatever the allocator left
\* there (zeroes, the nodes and positions of a freed heap, free-list
\* pointers, a fill pattern). Indeterminate is not one of those values but
\* the mark of such an int, different from every identifier, priority and
\* position the program computes; IndeterminateNode is a node slot of two
\* such ints. FillValues are some of the ints such storage has been seen to
\* hold; NoCallReadsIndeterminate checks that no call's outcome depends on
\* them.
Indeterminate == -2
IndeterminateNode == [id |-> Indeterminate, priority |-> Indeterminate]
FillValues == {0, 2, 5, -1094795586, 1658910650}

\* heap     : the MinHeap struct (size, capacity, arr, indexMap)
\* liveIds  : the identifiers the caller has inserted and not yet got back
\*            from extractMin (what insert's precondition speaks of)
\* insertedIds : the identifiers the caller has inserted at least once
\*            into this heap
\* lastOp   : the function called last
\* ret      : what that call returned
\* script, step, extracted : the caller of the build-then-drain runs: the
\*            inserts it will make, how many it has made, and the priorities
\*            extractMin has returned to it so far
VARIABLES heap, liveIds, insertedIds, lastOp, ret, script, step, extracted
vars == <<heap, liveIds, insertedIds, lastOp, ret, script, step, extracted>>

\* ------------------------------------------------- memory access helpers
\* A heap under execution carries the struct fields and the slots written
\* so far by the running operation (arrW, mapW) and the number of swaps it
\* has performed.
Running(h) ==
  [size |-> h.size, capacity |-> h.capacity, arr |-> h.arr,
   indexMap |-> h.indexMap, arrW |-> {}, mapW |-> {}, swaps |-> 0]

Struct(h) ==
  [size |-> h.size, capacity |-> h.capacity, arr |-> h.arr,
   indexMap |-> h.indexMap]

\* heap->arr[i] = node
setArr(h, i, node) ==
  [h EXCEPT !.arr = IF i \in DOMAIN @ THEN [@ EXCEPT ![i] = node] ELSE @,
            !.arrW = @ \cup {i}]

\* heap->indexMap[id] = idx
setIndexMap(h, id, idx) ==
  [h EXCEPT !.indexMap = IF id \in DOMAIN @ THEN [@ EXCEPT ![id] = idx] ELSE @,
            !.mapW = @ \cup {id}]

\* ---------------------------------------------------------------- helpers
isValidIndex(h, maybeIdx) == maybeIdx >= ROOT_INDEX /\ maybeIdx <= h.size

nodeAt(h, nodeIndex) == h.arr[nodeIndex]

priorityAt(h, nodeIndex) == h.arr[nodeIndex].priority

idAt(h, nodeIndex) == h.arr[nodeIndex].id

indexOf(h, id) == h.indexMap[id]

leftIdx(h, nodeIndex) ==
  IF ~isValidIndex(h, nodeIndex) THEN NOTHING
  ELSE LET left == 2 * nodeIndex
       IN  IF isValidIndex(h, left) THEN left ELSE NOTHING

\* rightIdx with the right-child formula of a 0-based array.
rightIdxZeroBased(h, nodeIndex) ==
  IF ~isValidIndex(h, nodeIndex) THEN NOTHING
  ELSE LET right == (2 * nodeIndex) + 2
       IN  IF isValidIndex(h, right) THEN right ELSE NOTHING

rightIdx(h, nodeIndex) ==
  IF ~isValidIndex(h, nodeIndex) THEN NOTHING
  ELSE LET right == (2 * nodeIndex) + 1
       IN  IF isValidIndex(h, right) THEN right ELSE NOTHING

\* parentIdx with the parent formula of a 0-based array.
parentIdxZeroBased(h, nodeIndex) ==
  IF nodeIndex = 1 \/ ~isValidIndex(h, nodeIndex) THEN NOTHING
  ELSE (nodeIndex - 1) \div 2

\* parentIdx that takes the preceding slot for the parent.
parentIdxPrevious(h, nodeIndex) ==
  IF nodeIndex = 1 \/ ~isValidIndex(h, nodeIndex) THEN NOTHING
  ELSE nodeIndex - 1

parentIdx(h, nodeIndex) ==
  IF nodeIndex = 1 \/ ~isValidIndex(h, nodeIndex) THEN NOTHING
  ELSE nodeIndex \div 2

\* swap that forgets the index-map entry of the node at index2.
swapOneEntry(h, index1, index2) ==
  IF isValidIndex(h, index1) /\ isValidIndex(h, index2)
  THEN LET temp == nodeAt(h, index1)
           h1 == setIndexMap(h, idAt(h, index1), index2)
           h3 == setArr(h1, index1, nodeAt(h1, index2))
       IN  [setArr(h3, index2, temp) EXCEPT !.swaps = @ + 1]
  ELSE h

swap(h, index1, index2) ==
  IF isValidIndex(h, index1) /\ isValidIndex(h, index2)
  THEN LET temp == nodeAt(h, index1)
           h1 == setIndexMap(h, idAt(h, index1), index2)
           h2 == setIndexMap(h1, idAt(h1, index2), index1)
           h3 == setArr(h2, index1, nodeAt(h2, index2))
       IN  [setArr(h3, index2, temp) EXCEPT !.swaps = @ + 1]
  ELSE h

\* bubbleUp that swaps with the parent once and does not go on.
bubbleUpOnce(h, nodeIndex) ==
  IF h.size = 0 THEN h
  ELSE LET parent == parentIdx(h, nodeIndex)
       IN  IF parent = NOTHING THEN h
           ELSE IF priorityAt(h, parent) > priorityAt(h, nodeIndex)
                THEN swap(h, parent, nodeIndex)
                ELSE h

\* bubbleUp with the comparison the wrong way round.
RECURSIVE bubbleUpReversed(_, _)
bubbleUpReversed(h, nodeIndex) ==
  IF h.size = 0 THEN h
  ELSE LET parent == parentIdx(h, nodeIndex)
       IN  IF parent = NOTHING THEN h
           ELSE LET id == idAt(h, nodeIndex)
                IN  IF priorityAt(h, parent) < priorityAt(h, nodeIndex)
                    THEN LET h1 == swap(h, parent, nodeIndex)
                         IN  bubbleUpReversed(h1, indexOf(h1, id))
                    ELSE h

RECURSIVE bubbleUp(_, _)
bubbleUp(h, nodeIndex) ==
  IF h.size = 0 THEN h
  ELSE LET parent == parentIdx(h, nodeIndex)
       IN  IF parent = NOTHING THEN h
           ELSE LET id == idAt(h, nodeIndex)
                IN  IF priorityAt(h, parent) > priorityAt(h, nodeIndex)
                    THEN LET h1 == swap(h, parent, nodeIndex)
                         IN  bubbleUp(h1, indexOf(h1, id))
                    ELSE h

\* The loop of bubbleDown with the two-children case looking at the left
\* child only.
RECURSIVE bubbleDownLeftOnly(_, _, _, _)
bubbleDownLeftOnly(h, id, left, right) ==
  IF left = NOTHING THEN h
  ELSE IF priorityAt(h, indexOf(h, id)) > priorityAt(h, left)
       THEN LET h1 == swap(h, indexOf(h, id), left)
            IN  bubbleDownLeftOnly(h1, id, leftIdx(h1, indexOf(h1, id)),
                                   rightIdx(h1, indexOf(h1, id)))
       ELSE h

\* The loop of bubbleDown as an if: one pass, then it stops.
bubbleDownOnePass(h, id, left, right) ==
  IF left = NOTHING THEN h
  ELSE LET priority == priorityAt(h, indexOf(h, id))
           priorityLeft == priorityAt(h, left)
       IN  IF right = NOTHING
           THEN IF priority > priorityLeft
                THEN swap(h, indexOf(h, id), left)
                ELSE h
           ELSE LET priorityRight == priorityAt(h, right)
                IN  IF priority > priorityLeft /\ priority > priorityRight
                    THEN IF priorityLeft < priorityRight
                         THEN swap(h, indexOf(h, id), left)
                         ELSE swap(h, indexOf(h, id), right)
                    ELSE IF priority > priorityLeft
                         THEN swap(h, indexOf(h, id), left)
                    ELSE IF priority > priorityRight
                         THEN swap(h, indexOf(h, id), right)
                    ELSE h

\* The loop of bubbleDown swapping also with a child of equal priority.
RECURSIVE bubbleDownSwapEqual(_, _, _, _)
bubbleDownSwapEqual(h, id, left, right) ==
  IF left = NOTHING THEN h
  ELSE LET priority == priorityAt(h, indexOf(h, id))
           priorityLeft == priorityAt(h, left)
           next(h1) == bubbleDownSwapEqual(h1, id, leftIdx(h1, indexOf(h1, id)),
                                           rightIdx(h1, indexOf(h1, id)))
       IN  IF right = NOTHING
           THEN IF priority >= priorityLeft
                THEN next(swap(h, indexOf(h, id), left))
                ELSE h
           ELSE LET priorityRight == priorityAt(h, right)
                IN  IF priority >= priorityLeft /\ priority >= priorityRight
                    THEN IF priorityLeft < priorityRight
                         THEN next(swap(h, indexOf(h, id), left))
                         ELSE next(swap(h, indexOf(h, id), right))
                    ELSE IF priority >= priorityLeft
                         THEN next(swap(h, indexOf(h, id), left))
                    ELSE IF priority >= priorityRight
                         THEN next(swap(h, indexOf(h, id), right))
                    ELSE h

\* The loop of bubbleDown taking the left child when the two children tie.
RECURSIVE bubbleDownLeftTie(_, _, _, _)
bubbleDownLeftTie(h, id, left, right) ==
  IF left = NOTHING THEN h
  ELSE LET priority == priorityAt(h, indexOf(h, id))
           priorityLeft == priorityAt(h, left)
           next(h1) == bubbleDownLeftTie(h1, id, leftIdx(h1, indexOf(h1, id)),
                                         rightIdx(h1, indexOf(h1, id)))
       IN  IF right = NOTHING
           THEN IF priority > priorityLeft
                THEN next(swap(h, indexOf(h, id), left))
                ELSE h
           ELSE LET priorityRight == priorityAt(h, right)
                IN  IF priority > priorityLeft /\ priority > priorityRight
                    THEN IF priorityLeft <= priorityRight
                         THEN next(swap(h, indexOf(h, id), left))
                         ELSE next(swap(h, indexOf(h, id), right))
                    ELSE IF priority > priorityLeft
                         THEN next(swap(h, indexOf(h, id), left))
                    ELSE IF priority > priorityRight
                         THEN next(swap(h, indexOf(h, id), right))
                    ELSE h

\* One pass of the while loop of bubbleDown; left /= NOTHING is the loop test.
RECURSIVE bubbleDownLoop(_, _, _, _)
bubbleDownLoop(h, id, left, right) ==
  IF left = NOTHING THEN h
  ELSE LET priority == priorityAt(h, indexOf(h, id))
           priorityLeft == priorityAt(h, left)
           next(h1) == bubbleDownLoop(h1, id, leftIdx(h1, indexOf(h1, id)),
                                      rightIdx(h1, indexOf(h1, id)))
       IN  IF right = NOTHING
           THEN IF priority > priorityLeft
                THEN next(swap(h, indexOf(h, id), left))
                ELSE h
           ELSE LET priorityRight == priorityAt(h, right)
                IN  IF priority > priorityLeft /\ priority > priorityRight
                    THEN IF priorityLeft < priorityRight
                         THEN next(swap(h, indexOf(h, id), left))
                         ELSE next(swap(h, indexOf(h, id), right))
                    ELSE IF priority > priorityLeft
                         THEN next(swap(h, indexOf(h, id), left))
                    ELSE IF priority > priorityRight
                         THEN next(swap(h, indexOf(h, id), right))
                    ELSE h

bubbleDown(h) ==
  IF h.size > 0
  THEN bubbleDownLoop(h, idAt(h, ROOT_INDEX), leftIdx(h, ROOT_INDEX),
                      rightIdx(h, ROOT_INDEX))
  ELSE h

\* ------------------------------------------------------ required functions
\* getMin that returns the last node instead of the root.
getMinLast(h) == h.arr[h.size]

getMin(h) == h.arr[ROOT_INDEX]

\* extractMin that removes the last node without first swapping it with
\* the root.
extractMinNoSwap(h) ==
  LET save == nodeAt(h, h.size)
      h2 == setIndexMap(h, idAt(h, h.size), 0)
      h3 == [h2 EXCEPT !.size = @ - 1]
  IN  [heap |-> bubbleDown(h3), save |-> save]

\* extractMin that forgets to decrement size.
extractMinKeepSize(h) ==
  LET h1 == swap(h, ROOT_INDEX, h.size)
      save == nodeAt(h1, h1.size)
      h2 == setIndexMap(h1, idAt(h1, h1.size), 0)
  IN  [heap |-> bubbleDown(h2), save |-> save]

\* extractMin that forgets to clear the index-map entry of the removed node.
extractMinNoClear(h) ==
  LET h1 == swap(h, ROOT_INDEX, h.size)
      save == nodeAt(h1, h1.size)
      h3 == [h1 EXCEPT !.size = @ - 1]
  IN  [heap |-> bubbleDown(h3), save |-> save]

\* The heap after the call and the returned node.
extractMin(h) ==
  LET h1 == swap(h, ROOT_INDEX, h.size)
      save == nodeAt(h1, h1.size)
      h2 == setIndexMap(h1, idAt(h1, h1.size), 0)
      h3 == [h2 EXCEPT !.size = @ - 1]
  IN  [heap |-> bubbleDown(h3), save |-> save]

\* insert that forgets to record the new node's position in the index map.
insertNoIndexMap(h, priority, id) ==
  LET newNode == [id |-> id, priority |-> priority]
      h1 == setArr(h, h.size + 1, newNode)
      h3 == [h1 EXCEPT !.size = @ + 1]
  IN  bubbleUp(h3, h3.size)

\* insert that takes the array as 0-based: the new node goes to slot size.
insertZeroBased(h, priority, id) ==
  LET newNode == [id |-> id, priority |-> priority]
      h1 == setArr(h, h.size, newNode)
      h2 == setIndexMap(h1, id, h1.size + 1)
      h3 == [h2 EXCEPT !.size = @ + 1]
  IN  bubbleUp(h3, h3.size)

insert(h, priority, id) ==
  LET newNode == [id |-> id, priority |-> priority]
      h1 == setArr(h, h.size + 1, newNode)
      h2 == setIndexMap(h1, id, h1.size + 1)
      h3 == [h2 EXCEPT !.size = @ + 1]
  IN  bubbleUp(h3, h3.size)

\* decreasePriority that lowers the priority of a live node without comparing
\* the new priority with the current one.
decreasePriorityNoCompare(h, id, newPriority) ==
  IF isValidIndex(h, indexOf(h, id)) /\ idAt(h, indexOf(h, id)) = id
  THEN LET idx == indexOf(h, id)
           h1 == setArr(h, idx, [id |-> id, priority |-> newPriority])
       IN  [heap |-> bubbleUp(h1, idx), result |-> TRUE]
  ELSE [heap |-> h, result |-> FALSE]

\* Declared in the source without a body; as specified: the priority of the
\* node the index map gives for id.
getPriority(h, id) == priorityAt(h, indexOf(h, id))

\* The body in the source is a stub: no effect, returns false.
decreasePriority(h, id, newPriority) == [heap |-> h, result |-> FALSE]

\* arr and indexMap are as malloc returned them: never written.
newHeap(capacity) ==
  [size |-> 0, capacity |-> capacity,
   arr |-> [p \in 0..capacity |-> IndeterminateNode],
   indexMap |-> [id \in Ids(capacity) |-> Indeterminate]]

\* What the caller's pointer refers to after deleteHeap: the struct and both
\* arrays are freed.
deleteHeap(h) ==
  [size |-> Indeterminate, capacity |-> Indeterminate,
   arr |-> << >>, indexMap |-> << >>]

Freed == deleteHeap(newHeap(0))

\* --------------------------------------------------------- heap predicates
LivePositions(h) == ROOT_INDEX..h.size

\* The (id, priority) pairs stored at the live positions.
LiveNodes(h) == {h.arr[p] : p \in LivePositions(h)}

HeapOrder(h) ==
  \A p \in LivePositions(h) :
    p > 1 => h.arr[p \div 2].priority <= h.arr[p].priority

IndexConsistent(h) ==
  \A p \in LivePositions(h) : h.indexMap[h.arr[p].id] = p

\* ------------------------------------------------------------ state machine
NoNode == [id |-> NOTHING, priority |-> NOTHING]
Ret(node, result) == [node |-> node, result |-> result]

InsertCall(id, priority) ==
  /\ id \in Ids(heap.capacity)
  /\ id \notin liveIds
  /\ heap.size < heap.capacity
  /\ liveIds' = liveIds \cup {id}
  /\ insertedIds' = insertedIds \cup {id}
  /\ heap' = Struct(insert(Running(heap), priority, id))
  /\ lastOp' = "insert"
  /\ ret' = Ret(NoNode, FALSE)

ExtractMinCall ==
  /\ heap.size > 0
  /\ LET r == extractMin(Running(heap))
     IN  /\ heap' = Struct(r.heap)
         /\ ret' = Ret(r.save, FALSE)
         /\ liveIds' = liveIds \ {r.save.id}
  /\ lastOp' = "extractMin"
  /\ UNCHANGED insertedIds

GetMinCall ==
  /\ heap.size > 0
  /\ ret' = Ret(getMin(heap), FALSE)
  /\ lastOp' = "getMin"
  /\ UNCHANGED <<heap, liveIds, insertedIds>>

DecreasePriorityCall(id, newPriority) ==
  /\ LET r == decreasePriority(Running(heap), id, newPriority)
     IN  /\ heap' = Struct(r.heap)
         /\ ret' = Ret(NoNode, r.result)
  /\ lastOp' = "decreasePriority"
  /\ UNCHANGED <<liveIds, insertedIds>>

\* ---- any sequence of calls that respect the preconditions
NewHeapCall(capacity) ==
  /\ heap' = newHeap(capacity)
  /\ liveIds' = {}
  /\ insertedIds' = {}
  /\ lastOp' = "newHeap"
  /\ ret' = Ret(NoNode, FALSE)

DeleteHeapCall ==
  /\ heap' = deleteHeap(heap)
  /\ liveIds' = {}
  /\ insertedIds' = {}
  /\ lastOp' = "deleteHeap"
  /\ ret' = Ret(NoNode, FALSE)

Init ==
  /\ \E capacity \in 0..MaxCapacity : heap = newHeap(capacity)
  /\ liveIds = {}
  /\ insertedIds = {}
  /\ lastOp = "newHeap"
  /\ ret = Ret(NoNode, FALSE)
  /\ script = << >>
  /\ step = 0
  /\ extracted = << >>

Insert ==
  /\ heap /= Freed
  /\ \E id \in Ids(heap.capacity), priority \in Priorities :
       InsertCall(id, priority)
  /\ UNCHANGED <<script, step, extracted>>

ExtractMin ==
  /\ heap /= Freed
  /\ ExtractMinCall
  /\ UNCHANGED <<script, step, extracted>>

GetMin ==
  /\ heap /= Freed
  /\ GetMinCall
  /\ UNCHANGED <<script, step, extracted>>

DecreasePriority ==
  /\ heap /= Freed
  /\ \E id \in Ids(heap.capacity), newPriority \in Priorities :
       DecreasePriorityCall(id, newPriority)
  /\ UNCHANGED <<script, step, extracted>>

\* The caller frees its heap; it makes no call on the freed heap.
DeleteHeap ==
  /\ heap /= Freed
  /\ DeleteHeapCall
  /\ UNCHANGED <<script, step, extracted>>

\* After freeing its heap the caller creates a new one, in storage that may
\* be the storage just freed.
NewHeap ==
  /\ heap = Freed
  /\ \E capacity \in 0..MaxCapacity : NewHeapCall(capacity)
  /\ UNCHANGED <<script, step, extracted>>

Next ==
  \/ Insert
  \/ ExtractMin
  \/ GetMin
  \/ DecreasePriority
  \/ DeleteHeap
  \/ NewHeap

Spec == Init /\ [][Next]_vars

\* ---- build-then-drain runs: insert a script of nodes, then extractMin
\*      until the heap is empty
DrainPriorities == {1, 3, 4, 5, 8}

PrioritySeqs == UNION {[1..n -> DrainPriorities] : n \in 0..MaxNodes}

\* The k-th insert uses identifier k-1 (ascending) or capacity-k (descending).
ScriptOf(ps, ascending) ==
  [k \in 1..Len(ps) |->
     [id |-> IF ascending THEN k - 1 ELSE MaxNodes - k, priority |-> ps[k]]]

InitDrain ==
  /\ heap = newHeap(MaxNodes)
  /\ liveIds = {}
  /\ insertedIds = {}
  /\ lastOp = "newHeap"
  /\ ret = Ret(NoNode, FALSE)
  /\ \E ps \in PrioritySeqs, ascending \in BOOLEAN :
       script = ScriptOf(ps, ascending)
  /\ step = 0
  /\ extracted = << >>

ScriptInsert ==
  /\ step < Len(script)
  /\ InsertCall(script[step + 1].id, script[step + 1].priority)
  /\ step' = step + 1
  /\ UNCHANGED <<script, extracted>>

ScriptExtract ==
  /\ step = Len(script)
  /\ ExtractMinCall
  /\ extracted' = Append(extracted, ret'.node.priority)
  /\ UNCHANGED <<script, step>>

NextDrain == ScriptInsert \/ ScriptExtract

SpecDrain == InitDrain /\ [][NextDrain]_vars

\* ---- one call on any heap of up to MaxSift nodes that is index-consistent
\*      and in heap order everywhere except, possibly, between the root and
\*      its children (what bubbleDown is handed by extractMin)
OrderedBelowRoot(ps) ==
  \A p \in DOMAIN ps : p \div 2 > ROOT_INDEX => ps[p \div 2] <= ps[p]

SiftPriorities ==
  UNION {{ps \in [1..n -> Priorities] : OrderedBelowRoot(ps)} : n \in 0..MaxSift}

\* The node at position p has identifier p-1 (ascending) or MaxSift-p. The
\* other identifiers were either inserted and extracted before (cleared:
\* their index-map entries are 0) or never inserted.
SiftHeap(ps, ascending, cleared) ==
  LET n == Len(ps)
      idOf(p) == IF ascending THEN p - 1 ELSE MaxSift - p
      posOf(id) == IF ascending THEN id + 1 ELSE MaxSift - id
  IN  [size |-> n, capacity |-> MaxSift,
       arr |-> [p \in 0..MaxSift |->
                  IF p \in 1..n THEN [id |-> idOf(p), priority |-> ps[p]]
                  ELSE IndeterminateNode],
       indexMap |-> [id \in Ids(MaxSift) |->
                       IF posOf(id) \in 1..n THEN posOf(id)
                       ELSE IF cleared THEN 0 ELSE Indeterminate]]

InitSift ==
  /\ \E ps \in SiftPriorities, ascending \in BOOLEAN, cleared \in BOOLEAN :
       /\ heap = SiftHeap(ps, ascending, cleared)
       /\ insertedIds = IF cleared THEN Ids(MaxSift)
                        ELSE {heap.arr[p].id : p \in 1..heap.size}
  /\ liveIds = {heap.arr[p].id : p \in 1..heap.size}
  /\ lastOp = "newHeap"
  /\ ret = Ret(NoNode, FALSE)
  /\ script = << >>
  /\ step = 0
  /\ extracted = << >>

RetValue(value) == [node |-> NoNode, result |-> FALSE, value |-> value]

GetPriorityCall(id) ==
  /\ id \in liveIds
  /\ ret' = RetValue(getPriority(heap, id))
  /\ lastOp' = "getPriority"
  /\ UNCHANGED <<heap, liveIds, insertedIds>>

\* bubbleDown on the heap as it is.
BubbleDownCall ==
  /\ heap' = Struct(bubbleDown(Running(heap)))
  /\ lastOp' = "bubbleDown"
  /\ ret' = Ret(NoNode, FALSE)
  /\ UNCHANGED <<liveIds, insertedIds>>

\* The priority of the node at nodeIndex is lowered, then bubbleUp runs on
\* that index.
Lowered(h, nodeIndex, newPriority) ==
  setArr(h, nodeIndex, [id |-> idAt(h, nodeIndex), priority |-> newPriority])

BubbleUpCall(nodeIndex, newPriority) ==
  /\ isValidIndex(heap, nodeIndex)
  /\ newPriority < priorityAt(heap, nodeIndex)
  /\ heap' = Struct(bubbleUp(Lowered(Running(heap), nodeIndex, newPriority),
                             nodeIndex))
  /\ lastOp' = "bubbleUp"
  /\ ret' = Ret(NoNode, FALSE)
  /\ UNCHANGED <<liveIds, insertedIds>>

OneBubbleDown ==
  /\ step = 0
  /\ BubbleDownCall
  /\ step' = 1
  /\ UNCHANGED <<script, extracted>>

OneBubbleUp ==
  /\ step = 0
  /\ HeapOrder(heap)
  /\ \E nodeIndex \in 1..MaxSift, newPriority \in 0..MaxPriority :
       BubbleUpCall(nodeIndex, newPriority)
  /\ step' = 1
  /\ UNCHANGED <<script, extracted>>

OneInsert ==
  /\ step = 0
  /\ HeapOrder(heap)
  /\ \E id \in Ids(heap.capacity), priority \in Priorities :
       InsertCall(id, priority)
  /\ step' = 1
  /\ UNCHANGED <<script, extracted>>

OneExtractMin ==
  /\ step = 0
  /\ HeapOrder(heap)
  /\ ExtractMinCall
  /\ step' = 1
  /\ UNCHANGED <<script, extracted>>

OneGetPriority ==
  /\ step = 0
  /\ HeapOrder(heap)
  /\ \E id \in Ids(heap.capacity) : GetPriorityCall(id)
  /\ step' = 1
  /\ UNCHANGED <<script, extracted>>

OneDecreasePriority ==
  /\ step = 0
  /\ HeapOrder(heap)
  /\ \E id \in Ids(heap.capacity), newPriority \in Priorities :
       DecreasePriorityCall(id, newPriority)
  /\ step' = 1
  /\ UNCHANGED <<script, extracted>>

NextSift ==
  \/ OneBubbleDown
  \/ OneBubbleUp
  \/ OneInsert
  \/ OneExtractMin
  \/ OneGetPriority
  \/ OneDecreasePriority

SpecSift == InitSift /\ [][NextSift]_vars

\* ------------------------------------------------------------- properties
\* The heap with every indeterminate int holding v.
Fill(h, v) ==
  [h EXCEPT !.arr = [p \in DOMAIN h.arr |->
                       IF h.arr[p] = IndeterminateNode
                       THEN [id |-> v, priority |-> v] ELSE h.arr[p]],
            !.indexMap = [id \in DOMAIN h.indexMap |->
                            IF h.indexMap[id] = Indeterminate
                            THEN v ELSE h.indexMap[id]]]

\* No call that respects its preconditions reads storage nothing has
\* written: whatever the indeterminate ints hold, the call returns the same
\* and leaves the same heap, the storage it did not write still holding
\* what it held.
NoCallReadsIndeterminate ==
  [][/\ \A id \in Ids(heap.capacity), priority \in Priorities :
          (lastOp' = "insert" /\ InsertCall(id, priority)) =>
            \A v \in FillValues :
              Struct(insert(Running(Fill(heap, v)), priority, id)) = Fill(heap', v)
     /\ (lastOp' = "extractMin" /\ ExtractMinCall) =>
          \A v \in FillValues :
            LET r == extractMin(Running(Fill(heap, v)))
            IN  /\ Struct(r.heap) = Fill(heap', v)
                /\ r.save = ret'.node
     /\ (lastOp' = "getMin" /\ GetMinCall) =>
          \A v \in FillValues : getMin(Fill(heap, v)) = ret'.node
     /\ \A id \in Ids(heap.capacity), newPriority \in Priorities :
          (lastOp' = "decreasePriority" /\ DecreasePriorityCall(id, newPriority)) =>
            \A v \in FillValues :
              LET r == decreasePriority(Running(Fill(heap, v)), id, newPriority)
              IN  /\ Struct(r.heap) = Fill(heap', v)
                  /\ r.result = ret'.result
     /\ (lastOp' = "bubbleDown" /\ BubbleDownCall) =>
          \A v \in FillValues :
            Struct(bubbleDown(Running(Fill(heap, v)))) = Fill(heap', v)
     /\ \A nodeIndex \in 1..MaxSift, newPriority \in 0..MaxPriority :
          (lastOp' = "bubbleUp" /\ BubbleUpCall(nodeIndex, newPriority)) =>
            \A v \in FillValues :
              Struct(bubbleUp(Lowered(Running(Fill(heap, v)), nodeIndex,
                                      newPriority), nodeIndex)) = Fill(heap', v)
     /\ \A id \in Ids(heap.capacity) :
          (lastOp' = "getPriority" /\ GetPriorityCall(id)) =>
            \A v \in FillValues : getPriority(Fill(heap, v), id) = ret'.value]_vars

\* The identifiers inserted at least once are those whose index-map entry
\* has been written, and every slot in 1..size has been written.
WrittenWhereUsed ==
  heap /= Freed =>
    /\ liveIds \subseteq insertedIds
    /\ insertedIds = {id \in Ids(heap.capacity) : indexOf(heap, id) /= Indeterminate}
    /\ \A p \in LivePositions(heap) : nodeAt(heap, p) /= IndeterminateNode

\* C1 (I1, heap order): in every state reached from an empty heap by calls
\* of insert, extractMin, getMin and decreasePriority that respect their
\* preconditions, the priority at position p/2 is <= the priority at
\* position p, for every position p with 1 < p <= size.
C1_HeapOrder == HeapOrder(heap)

\* An extractMin left three nodes of three different priorities: the node it
\* moved to the root was sifted down below the smaller child.
C1_Witness ==
  /\ lastOp = "extractMin"
  /\ heap.size = 3
  /\ heap.arr[1].priority < heap.arr[2].priority
  /\ heap.arr[2].priority /= heap.arr[3].priority
  /\ heap.arr[1].priority < heap.arr[3].priority

\* C2 (I3, index consistency): after every insert, extractMin, getMin and
\* decreasePriority, indexMap[arr[p].id] = p for every position p in
\* 1..size, so looking up a live identifier's position and reading that
\* slot yields a node with that identifier.
C2_IndexConsistency ==
  /\ IndexConsistent(heap)
  /\ \A id \in liveIds :
       /\ isValidIndex(heap, indexOf(heap, id))
       /\ idAt(heap, indexOf(heap, id)) = id

\* After an extractMin that left three nodes, the index map giving position
\* 3 for the identifier stored there.
C2_Witness ==
  /\ lastOp = "extractMin"
  /\ heap.size = 3
  /\ \E id \in liveIds : indexOf(heap, id) = 3

\* C3: an extractMin on a non-empty heap returns a node that was live, whose
\* priority is <= that of every node live before the call; afterwards size
\* is one less and the live (id, priority) pairs are the previous ones
\* without the returned node.
C3_ExtractMinRemovesMinimum ==
  [][(lastOp' = "extractMin" /\ ExtractMinCall) =>
       /\ ret'.node \in LiveNodes(heap)
       /\ \A n \in LiveNodes(heap) : ret'.node.priority <= n.priority
       /\ heap'.size = heap.size - 1
       /\ LiveNodes(heap') = LiveNodes(heap) \ {ret'.node}
       /\ Cardinality(LiveNodes(heap')) = heap'.size]_vars

\* An extractMin returned a node strictly smaller than the three it left.
C3_Witness ==
  /\ lastOp = "extractMin"
  /\ heap.size = 3
  /\ \A n \in LiveNodes(heap) : ret.node.priority < n.priority

\* C4: decreasePriority(id, newPriority) with a live id and newPriority
\* strictly below the node's current priority sets that node's priority to
\* newPriority, returns true, and leaves heap order and index consistency
\* holding.
C4_DecreaseLowersPriority ==
  [][\A id \in Ids(heap.capacity), newPriority \in Priorities :
       ( /\ lastOp' = "decreasePriority"
         /\ DecreasePriorityCall(id, newPriority)
         /\ id \in liveIds
         /\ newPriority < priorityAt(heap, indexOf(heap, id)) )
       => /\ ret'.result = TRUE
          /\ priorityAt(heap', indexOf(heap', id)) = newPriority
          /\ idAt(heap', indexOf(heap', id)) = id
          /\ HeapOrder(heap')
          /\ IndexConsistent(heap')]_vars

\* C5 (rejection atomicity): decreasePriority with an identifier that is not
\* live, or with newPriority >= the node's current priority, returns false
\* and leaves size, every array slot and every index-map entry as they
\* were.
C5_RejectionAtomicity ==
  [][\A id \in Ids(heap.capacity), newPriority \in Priorities :
       ( /\ lastOp' = "decreasePriority"
         /\ DecreasePriorityCall(id, newPriority)
         /\ \/ id \notin liveIds
            \/ newPriority >= priorityAt(heap, indexOf(heap, id)) )
       => /\ ret'.result = FALSE
          /\ heap'.size = heap.size
          /\ heap'.arr = heap.arr
          /\ heap'.indexMap = heap.indexMap]_vars

\* A decreasePriority has returned false on a heap holding both a live and
\* a non-live identifier, the live root being at the lowest priority (no
\* new priority is below it).
C5_Witness ==
  /\ lastOp = "decreasePriority"
  /\ ret.result = FALSE
  /\ heap.size >= 2
  /\ heap.size < heap.capacity
  /\ heap.arr[ROOT_INDEX].priority = 1

\* C6 (extraction order): in a run that inserts n nodes and then calls
\* extractMin n times, the priorities returned so far are non-decreasing;
\* once n have been returned the heap is empty and they are the inserted
\* priorities in sorted order; priorities 5,3,8,1,4 with ids 0..4 come out
\* as 1,3,4,5,8.
Count(seq, v) == Cardinality({i \in DOMAIN seq : seq[i] = v})

ScriptPriorities == [k \in DOMAIN script |-> script[k].priority]

C6_ExtractionOrder ==
  /\ \A i \in 1..(Len(extracted) - 1) : extracted[i] <= extracted[i + 1]
  /\ Len(extracted) <= Len(script)
  /\ (step = Len(script) /\ Len(extracted) = Len(script)) =>
       /\ heap.size = 0
       /\ \A v \in DrainPriorities :
            Count(extracted, v) = Count(ScriptPriorities, v)
  /\ ( /\ script = ScriptOf(<<5, 3, 8, 1, 4>>, TRUE)
       /\ Len(extracted) = 5 )
     => extracted = <<1, 3, 4, 5, 8>>

C6_Witness ==
  /\ script = ScriptOf(<<5, 3, 8, 1, 4>>, TRUE)
  /\ extracted = <<1, 3, 4, 5, 8>>
  /\ heap.size = 0

\* C7: getMin on a non-empty heap returns the node at position 1, whose
\* priority is the minimum over the live nodes and which is the node
\* extractMin would return next; size, array and index map are unchanged.
C7_GetMinIsMinimumAndPure ==
  [][(lastOp' = "getMin" /\ GetMinCall) =>
       /\ ret'.node = heap.arr[ROOT_INDEX]
       /\ \A n \in LiveNodes(heap) : ret'.node.priority <= n.priority
       /\ ret'.node = extractMin(Running(heap)).save
       /\ heap' = heap]_vars

C7_Witness ==
  /\ lastOp = "getMin"
  /\ heap.size >= 3
  /\ ret.node = heap.arr[ROOT_INDEX]
  /\ \E p \in LivePositions(heap) : ret.node.priority < heap.arr[p].priority

\* C8: insert(priority, id) with id not live, 0 <= id < capacity and
\* size < capacity increases size by one, makes arr[indexMap[id]] the node
\* (id, priority), and keeps every previously live (id, priority) pair live.
C8_InsertAddsNode ==
  [][\A id \in Ids(heap.capacity), priority \in Priorities :
       (lastOp' = "insert" /\ InsertCall(id, priority))
       => /\ heap'.size = heap.size + 1
          /\ isValidIndex(heap', indexOf(heap', id))
          /\ nodeAt(heap', indexOf(heap', id)) = [id |-> id, priority |-> priority]
          /\ LiveNodes(heap') = LiveNodes(heap) \cup {[id |-> id, priority |-> priority]}
          /\ Cardinality(LiveNodes(heap')) = heap'.size]_vars

\* An insert whose node was sifted up to the root of a four-node heap.
C8_Witness ==
  /\ lastOp = "insert"
  /\ heap.size = 4
  /\ heap.arr[ROOT_INDEX].priority < heap.arr[2].priority
  /\ heap.arr[4].priority > heap.arr[2].priority

\* C9 (capacity): 0 <= size <= capacity and size is the number of
\* identifiers inserted and not extracted (so inserting all of [0, capacity)
\* gives size = capacity); every array write of an insert or extractMin that
\* the state allows lands in slots 1..capacity, every index-map write in
\* entries 0..capacity-1.
WritesInBounds(h) ==
  /\ h.arrW \subseteq 1..h.capacity
  /\ h.mapW \subseteq Ids(h.capacity)

C9_Capacity ==
  heap /= Freed =>
    /\ heap.size >= 0
    /\ heap.size <= heap.capacity
    /\ heap.size = Cardinality(liveIds)
    /\ liveIds = Ids(heap.capacity) => heap.size = heap.capacity
    /\ \A id \in Ids(heap.capacity) \ liveIds, priority \in Priorities :
         heap.size < heap.capacity =>
           WritesInBounds(insert(Running(heap), priority, id))
    /\ heap.size > 0 => WritesInBounds(extractMin(Running(heap)).heap)

\* A heap filled to its capacity: the last insert wrote slot capacity and
\* every identifier in [0, capacity) is live.
C9_Witness ==
  /\ lastOp = "insert"
  /\ heap.capacity = MaxCapacity
  /\ heap.size = heap.capacity
  /\ liveIds = Ids(heap.capacity)
  /\ idAt(heap, heap.capacity) \in liveIds

\* C10 (I2, I4): the identifiers at positions 1..size are exactly the live
\* ones (inserted and not yet extracted), and no two positions in 1..size
\* hold the same identifier, also after an extracted identifier is inserted
\* again.
C10_LiveExactlyOnce ==
  /\ {idAt(heap, p) : p \in LivePositions(heap)} = liveIds
  /\ \A p, q \in LivePositions(heap) : idAt(heap, p) = idAt(heap, q) => p = q
  /\ \A p \in 0..heap.capacity : isValidIndex(heap, p) <=> p \in 1..Cardinality(liveIds)

\* An identifier that extractMin removed is live again: its old node is
\* still in a slot past size.
C10_Witness ==
  /\ lastOp = "insert"
  /\ \E p \in LivePositions(heap), q \in (heap.size + 1)..heap.capacity :
       idAt(heap, q) = idAt(heap, p)

\* C11: getPriority(id) for a live identifier returns the current priority
\* of the node carrying that identifier and changes nothing; the current
\* priority is the one given to insert, or the new priority of a
\* decreasePriority call that lowers it (live id, strictly smaller
\* priority), and a rejected decreasePriority leaves it as it was.
PriorityOf(h, id) ==
  (CHOOSE n \in LiveNodes(h) \cup {NoNode} :
     n.id = id \/ (n = NoNode /\ \A m \in LiveNodes(h) : m.id /= id)).priority

C11_GetPriorityIsCurrent ==
  [][/\ \A id \in Ids(heap.capacity) :
          (lastOp' = "getPriority" /\ GetPriorityCall(id))
          => /\ ret'.value = PriorityOf(heap, id)
             /\ heap' = heap
     /\ \A id \in Ids(heap.capacity), priority \in Priorities :
          (lastOp' = "insert" /\ InsertCall(id, priority))
          => getPriority(heap', id) = priority
     /\ \A id \in Ids(heap.capacity), newPriority \in Priorities :
          ( /\ lastOp' = "decreasePriority"
            /\ DecreasePriorityCall(id, newPriority)
            /\ id \in liveIds )
          => getPriority(heap', id) =
               IF newPriority < getPriority(heap, id)
               THEN newPriority
               ELSE getPriority(heap, id)]_vars

\* Positions strictly above p on the way to the root.
RECURSIVE Ancestors(_)
Ancestors(p) == IF p <= ROOT_INDEX THEN {} ELSE {p \div 2} \cup Ancestors(p \div 2)

\* The positions the node that bubbleDown tracks (the root of h) goes
\* through, given the heap hAfter that bubbleDown leaves.
Visited(h, hAfter) ==
  LET final == indexOf(hAfter, idAt(h, ROOT_INDEX))
  IN  Ancestors(final) \cup {final}

\* At position q the tracked node of h has two children of equal priority,
\* both below its own.
TieBelow(h, q) ==
  /\ 2 * q + 1 <= h.size
  /\ priorityAt(h, 2 * q) = priorityAt(h, 2 * q + 1)
  /\ priorityAt(h, ROOT_INDEX) > priorityAt(h, 2 * q)

\* C12 as claimed: when the node being sifted down has two children of equal
\* priority, both smaller than its own, it is swapped with the left child
\* (position 2p).
C12_TieGoesLeft ==
  [][(lastOp' = "bubbleDown" /\ BubbleDownCall /\ heap.size > 0) =>
       \A q \in Visited(heap, heap') :
         TieBelow(heap, q) =>
           /\ nodeAt(heap', q) = nodeAt(heap, 2 * q)
           /\ nodeAt(heap', 2 * q + 1) = nodeAt(heap, 2 * q + 1)]_vars

\* C12 as the code has it: in that case the node is swapped with the right
\* child (position 2p+1); the left child stays where it is.
C12_TieGoesRight ==
  [][(lastOp' = "bubbleDown" /\ BubbleDownCall /\ heap.size > 0) =>
       \A q \in Visited(heap, heap') :
         TieBelow(heap, q) =>
           /\ nodeAt(heap', q) = nodeAt(heap, 2 * q + 1)
           /\ nodeAt(heap', 2 * q) = nodeAt(heap, 2 * q)]_vars

\* bubbleDown took the root (identifier 0) of a seven-node heap to position
\* 7 through two ties: the nodes that sat at 3 and 7 (identifiers 2 and 6)
\* moved up, their equal-priority left siblings did not.
C12_Witness ==
  /\ lastOp = "bubbleDown"
  /\ heap.size = 7
  /\ idAt(heap, 7) = 0 /\ idAt(heap, 1) = 2 /\ idAt(heap, 3) = 6
  /\ idAt(heap, 2) = 1 /\ idAt(heap, 6) = 5
  /\ priorityAt(heap, 1) = priorityAt(heap, 2)
  /\ priorityAt(heap, 3) = priorityAt(heap, 6)
  /\ priorityAt(heap, 7) > priorityAt(heap, 3)

\* Heap order for every parent-child pair whose parent is not the root.
HeapOrderBelowRoot(h) ==
  \A p \in LivePositions(h) :
    p \div 2 > ROOT_INDEX => priorityAt(h, p \div 2) <= priorityAt(h, p)

\* C13: on a heap that is index-consistent and in heap order for every pair
\* except possibly those whose parent is position 1, bubbleDown leaves heap
\* order (I1) and index consistency (I3) holding everywhere and the live
\* nodes (and size) unchanged.
C13_BubbleDownRestoresOrder ==
  [][( /\ lastOp' = "bubbleDown"
       /\ BubbleDownCall
       /\ IndexConsistent(heap)
       /\ HeapOrderBelowRoot(heap) )
     => /\ HeapOrder(heap')
        /\ IndexConsistent(heap')
        /\ heap'.size = heap.size
        /\ LiveNodes(heap') = LiveNodes(heap)
        /\ Cardinality(LiveNodes(heap')) = heap'.size]_vars

\* bubbleDown took the root (identifier 0 or MaxSift-1) of a seven-node heap
\* two levels down, to position 4 or 5, and the heap is in order.
C13_Witness ==
  /\ lastOp = "bubbleDown"
  /\ heap.size = 7
  /\ \E p \in {4, 5} : idAt(heap, p) \in {0, MaxSift - 1}
  /\ priorityAt(heap, 1) < priorityAt(heap, 2)
  /\ priorityAt(heap, 2) < priorityAt(heap, 3)

\* Positions strictly below p: those that have p among their ancestors.
Descendants(h, p) == {d \in LivePositions(h) : p \in Ancestors(d)}

\* C14: on a heap satisfying I1 and I3, lowering the priority of the node
\* at a live position p and then running bubbleUp(p) leaves I1 and I3
\* holding, the node carrying the new priority, and every node at a
\* descendant position of p where it was.
C14_BubbleUpAfterDecrease ==
  [][\A nodeIndex \in 1..MaxSift, newPriority \in 0..MaxPriority :
       ( /\ lastOp' = "bubbleUp"
         /\ BubbleUpCall(nodeIndex, newPriority)
         /\ HeapOrder(heap)
         /\ IndexConsistent(heap) )
       => /\ HeapOrder(heap')
          /\ IndexConsistent(heap')
          /\ heap'.size = heap.size
          /\ nodeAt(heap', indexOf(heap', idAt(heap, nodeIndex))) =
               [id |-> idAt(heap, nodeIndex), priority |-> newPriority]
          /\ \A d \in Descendants(heap, nodeIndex) :
               /\ nodeAt(heap', d) = nodeAt(heap, d)
               /\ indexOf(heap', idAt(heap, d)) = d]_vars

\* A node lowered at position 2 or 3 of a seven-node heap went to the root
\* (position 1 holds identifier 1 or 2, the old root sits below it) with
\* its two children still in place.
C14_Witness ==
  /\ lastOp = "bubbleUp"
  /\ heap.size = 7
  /\ \/ idAt(heap, 1) = 1 /\ idAt(heap, 2) = 0 /\ idAt(heap, 4) = 3 /\ idAt(heap, 5) = 4
     \/ idAt(heap, 1) = 2 /\ idAt(heap, 3) = 0 /\ idAt(heap, 6) = 5 /\ idAt(heap, 7) = 6
  /\ priorityAt(heap, 1) < priorityAt(heap, 2)
  /\ priorityAt(heap, 1) < priorityAt(heap, 3)

\* The root of h has no child of smaller priority.
RootInOrder(h) ==
  \A c \in {2, 3} : isValidIndex(h, c) => priorityAt(h, ROOT_INDEX) <= priorityAt(h, c)

\* C16: bubbleDown swaps the tracked node only with a child of strictly
\* smaller priority: every other node it moves is strictly below the
\* tracked node's priority; and if the root's priority is <= that of each
\* child it has, the array, the index map and size are unchanged.
C16_BubbleDownStopsInOrder ==
  [][(lastOp' = "bubbleDown" /\ BubbleDownCall /\ heap.size > 0) =>
       /\ RootInOrder(heap) => heap' = heap
       /\ \A p \in LivePositions(heap) :
            ( /\ nodeAt(heap', p) /= nodeAt(heap, p)
              /\ idAt(heap', p) /= idAt(heap, ROOT_INDEX) )
            => priorityAt(heap', p) < priorityAt(heap, ROOT_INDEX)]_vars

\* bubbleDown ran on a three-node heap whose root ties with its left child
\* and is below its right child, and every node is where it was.
C16_Witness ==
  /\ lastOp = "bubbleDown"
  /\ heap.size = 3
  /\ \A p \in 1..3 : idAt(heap, p) = p - 1
  /\ priorityAt(heap, 1) = priorityAt(heap, 2)
  /\ priorityAt(heap, 1) < priorityAt(heap, 3)

\* C15: an extractMin step leaves the index-map entry of the returned
\* node's identifier at 0, which is no live position; under the calls on
\* one heap, the entry of an identifier that was inserted and is not live
\* is 0 and stays 0 as long as the identifier is not inserted again; and
\* for every identifier inserted at least once the entry is in 1..size
\* exactly when the identifier is live.
C15_ExtractedEntryCleared ==
  [][/\ (lastOp' = "extractMin" /\ ExtractMinCall) =>
          /\ indexOf(heap', ret'.node.id) = 0
          /\ ret'.node.id \notin liveIds'
          /\ ~isValidIndex(heap', 0)
     /\ lastOp' \notin {"newHeap", "deleteHeap"} =>
          \A id \in Ids(heap.capacity) :
            /\ (id \in insertedIds /\ id \notin liveIds /\ id \notin liveIds')
               => /\ indexOf(heap, id) = 0
                  /\ indexOf(heap', id) = 0
            /\ id \in insertedIds' =>
                 (isValidIndex(heap', indexOf(heap', id)) <=> id \in liveIds')]_vars

\* An extractMin has cleared the entry of the identifier it returned and
\* left two live nodes, while another identifier was never inserted.
C15_Witness ==
  /\ lastOp = "extractMin"
  /\ indexOf(heap, ret.node.id) = 0
  /\ heap.size >= 2
  /\ Ids(heap.capacity) \ insertedIds /= {}

\* The node at p has a left child and no right child.
LeftChildOnly(h, p) == leftIdx(h, p) /= NOTHING /\ rightIdx(h, p) = NOTHING

RECURSIVE Log2(_)
Log2(n) == IF n <= 1 THEN 0 ELSE 1 + Log2(n \div 2)

\* The level of position p in the tree; the root is on level 0.
Level(p) == Log2(p)

\* C17 as claimed: a live node has a left child and no right child precisely
\* when the number of live nodes is odd and the node is on the
\* second-to-last level.
C17_OneChildWhenOdd ==
  \A p \in LivePositions(heap) :
    LeftChildOnly(heap, p)
    <=> (heap.size % 2 = 1 /\ Level(p) = Level(heap.size) - 1)

\* C17 as the code has it: a node has a left child and no right child
\* precisely when the number of live nodes is even and the node is the
\* parent of the last node (position size/2, on the second-to-last level).
C17_OneChildWhenEven ==
  \A p \in LivePositions(heap) :
    /\ LeftChildOnly(heap, p) <=> (heap.size % 2 = 0 /\ p = heap.size \div 2)
    /\ LeftChildOnly(heap, p) => Level(p) = Level(heap.size) - 1

\* bubbleDown took the root (identifier 0) of a six-node heap through
\* position 3, which has a left child only, down to position 6.
C17_Witness ==
  /\ lastOp = "bubbleDown"
  /\ heap.size = 6
  /\ idAt(heap, 6) = 0
  /\ idAt(heap, 3) = 5
  /\ idAt(heap, 1) = 2

\* C18: every bubbleDown, bubbleUp, insert and extractMin returns (the step
\* exists from every heap they are run on), having made at most
\* floor(log2(size)) swaps in bubbleDown's loop or bubbleUp's recursion; the
\* number of swaps is the number of levels the tracked node has gone down
\* (bubbleDown) or up towards the root along its ancestors (bubbleUp).
C18_SwapsBoundedByHeight ==
  [][/\ (lastOp' = "bubbleDown" /\ BubbleDownCall /\ heap.size > 0) =>
          LET swaps == bubbleDown(Running(heap)).swaps
              final == indexOf(heap', idAt(heap, ROOT_INDEX))
          IN  /\ swaps <= Log2(heap.size)
              /\ Level(final) = swaps
     /\ \A nodeIndex \in 1..MaxSift, newPriority \in 0..MaxPriority :
          (lastOp' = "bubbleUp" /\ BubbleUpCall(nodeIndex, newPriority)) =>
            LET swaps == bubbleUp(Lowered(Running(heap), nodeIndex, newPriority),
                                  nodeIndex).swaps
                final == indexOf(heap', idAt(heap, nodeIndex))
            IN  /\ swaps <= Log2(heap.size)
                /\ final \in Ancestors(nodeIndex) \cup {nodeIndex}
                /\ Level(nodeIndex) - Level(final) = swaps
     /\ \A id \in Ids(heap.capacity), priority \in Priorities :
          (lastOp' = "insert" /\ InsertCall(id, priority)) =>
            LET swaps == insert(Running(heap), priority, id).swaps
                final == indexOf(heap', id)
            IN  /\ swaps <= Log2(heap'.size)
                /\ final \in Ancestors(heap'.size) \cup {heap'.size}
                /\ Level(heap'.size) - Level(final) = swaps
     /\ (lastOp' = "extractMin" /\ ExtractMinCall) =>
          LET swaps == extractMin(Running(heap)).heap.swaps - 1
          IN  /\ swaps >= 0
              /\ swaps <= Log2(heap'.size)
              /\ heap'.size > 0 =>
                   Level(indexOf(heap', idAt(heap, heap.size))) = swaps]_vars

\* bubbleDown took the root (identifier 0) of a seven-node heap to position
\* 6 in floor(log2(7)) = 2 swaps, first right, then left.
C18_Witness ==
  /\ lastOp = "bubbleDown"
  /\ heap.size = 7
  /\ idAt(heap, 6) = 0
  /\ idAt(heap, 3) = 5
  /\ idAt(heap, 1) = 2

\* C19: an insert moves nodes only along the path from the new leaf
\* (position old size + 1) to the root: a previously live node whose
\* position is not an ancestor of the new leaf keeps its position and its
\* index-map entry, and a node that moves goes from its position to that
\* position's child on the path, one level down.
C19_InsertMovesOnlyThePath ==
  [][\A id \in Ids(heap.capacity), priority \in Priorities :
       (lastOp' = "insert" /\ InsertCall(id, priority)) =>
         LET leaf == heap.size + 1
             path == Ancestors(leaf) \cup {leaf}
         IN  \A p \in LivePositions(heap) :
               /\ p \notin Ancestors(leaf) =>
                    /\ nodeAt(heap', p) = nodeAt(heap, p)
                    /\ indexOf(heap', idAt(heap, p)) = p
               /\ nodeAt(heap', p) /= nodeAt(heap, p) =>
                    \E c \in {2 * p, 2 * p + 1} \cap path :
                      /\ nodeAt(heap', c) = nodeAt(heap, p)
                      /\ indexOf(heap', idAt(heap, p)) = c
                      /\ Level(c) = Level(p) + 1]_vars

\* An insert at position 4 went up to the root: the old root is at
\* position 2, the node that was at 2 is at 4, and position 3 is untouched.
C19_Witness ==
  /\ lastOp = "insert"
  /\ heap.size = 4
  /\ priorityAt(heap, 1) < priorityAt(heap, 2)
  /\ priorityAt(heap, 2) < priorityAt(heap, 4)
  /\ priorityAt(heap, 1) < priorityAt(heap, 3)
====
